---- MODULE Spec2Model ----
(***************************************************************************)
(* A model of wradlib/vis.py: the plotting wrappers (polar_plot,           *)
(* cartesian_plot, rhi_plot, plot_plan_and_vert, plot_tseries) acting on   *)
(* pylab's global figure state, the numerical bookkeeping they do          *)
(* themselves (tick vectors, display ranges, the azimuth roll, keyword     *)
(* arguments, coordinate vectors), NorthPolarTransform, and the cg_plot    *)
(* class with its plot, colorbar, tick and grid methods.                   *)
(*                                                                         *)
(* Lengths (ranges, heights, tick spacings) are counted in units of 1/Unit *)
(* so that every divisor of the tick search is an integer.  Angles and     *)
(* distances produced by np.linspace for the display ranges are kept as    *)
(* numerators over the common denominator num-1.                           *)
(***************************************************************************)
EXTENDS Integers, Sequences, FiniteSets, TLC

VARIABLES
    stack,        \* pylab's open figures, least recently active first; the last one is the current figure
    files,        \* the paths of the image files written so far
    dirs,         \* the directories that exist
    interactive,  \* pylab's interactive mode
    call,         \* the plotting call that has just returned and what it did; none after any other step
    tick,         \* the last call of get_tick_vector and its result
    slice,        \* the last display-range selection of rhi_plot / cg_plot.plot
    mesh,         \* the last polar mesh built by polar_plot / PolarPlot.plot
    kwcall,       \* the keywords of the last call of rhi_plot and where they went
    cart,         \* the last coordinate vectors built by cartesian_plot
    npt,          \* the last point given to NorthPolarTransform.transform and its image
    cg            \* a cg_plot object: its attributes and the state of its axes

vars == <<stack, files, dirs, interactive, call, tick, slice, mesh, kwcall, cart, npt, cg>>

-----------------------------------------------------------------------------
(* Bounds of the model *)

MaxFigs == 3        \* figure numbers are 1..MaxFigs
MaxWidth == 260     \* widths of the value ranges given to get_tick_vector, in whole units
MaxResWidth == 30   \* the same, for calls with an explicit resolution
MaxTheta == 4       \* azimuth rows of the data
MaxR == 3           \* range bins of the data
MaxShift == 9       \* |theta0|
MaxKwargs == 3      \* keyword arguments given in one call
MaxRows == 8        \* rows of the data given to cartesian_plot
MaxCols == 8        \* columns of the data given to cartesian_plot
MaxQuarter == 5     \* |theta| in quarter turns
MaxRadius == 5      \* r
MaxCax == 2         \* colorbar axes added to one figure

-----------------------------------------------------------------------------
(* Numbers *)

\* One length unit is Unit model units: hundredths hold the divisors 2.5, 0.5,
\* 0.25 and 0.2 and the tick marks np.linspace makes of them.
Unit == 100

Max(S) == CHOOSE m \in S : \A n \in S : n <= m

\* np.linspace(start, stop, num) as numpy computes it when the step is a whole
\* number of model units: samples start + i*step with step = (stop-start)/(num-1),
\* the last sample is stop.
linspace(start, stop, num) ==
    IF num <= 0 THEN << >>
    ELSE IF num = 1 THEN << start >>
    ELSE [i \in 1..num |->
            IF i = num THEN stop
            ELSE start + ((i - 1) * (stop - start)) \div (num - 1)]

\* np.linspace(start, stop, num) for samples that are fractions: the numerators
\* over the common denominator LinDen(num).
LinDen(num) == IF num <= 1 THEN 1 ELSE num - 1

linspace_num(start, stop, num) ==
    IF num <= 0 THEN << >>
    ELSE IF num = 1 THEN << start >>
    ELSE [i \in 1..num |-> start * (num - 1) + (i - 1) * (stop - start)]

Min(S) == CHOOSE m \in S : \A n \in S : m <= n

-----------------------------------------------------------------------------
(* get_tick_vector *)

\* The default divisors of the module function, in model units:
\* [100.,50.,20.,10.,5.,2.5,2.,1.,0.5,0.25,0.2]
DefaultDivs == << 10000, 5000, 2000, 1000, 500, 250, 200, 100, 50, 25, 20 >>

\* The default divisors of cg_plot.get_tick_vector:
\* [200.,100.,50.,20.,10.,5.,2.5,2.,1.,0.5,0.25,0.2]
CgDefaultDivs == << 20000, 10000, 5000, 2000, 1000, 500, 250, 200, 100, 50, 25, 20 >>

\* The truth value Python takes of a numpy array in "if not vres": an empty
\* array is false, an array of one element has the truth value of the element
\* (np.array(0.) and np.array(None) are false), and an array of several
\* elements raises ValueError.
ArrayTruth(vres) ==
    IF Len(vres) = 0 THEN "false"
    ELSE IF Len(vres) = 1 THEN (IF vres[1] = 0 THEN "false" ELSE "true")
    ELSE "ambiguous"

\* The divisors that are no binary fractions: only 0.2, whose double is
\* 0.200000000000000011, a little above 0.2.
InexactDivs == { 20 }

\* np.mod(x, div) on doubles, for x a multiple of a quarter (exact as a
\* double).  For an exact div it is the remainder.  For div = 0.2 and x = k * 0.2
\* the k-th step of the double 0.2 is beyond x, so the remainder is what is
\* left after k-1 steps: np.mod(1., 0.2) = 0.19999999999999996, which is 0.2
\* to the hundredth.
np_mod(x, div) ==
    IF div \in InexactDivs /\ x > 0 /\ x % div = 0 THEN div ELSE x % div

\* for div in divs: cnt = x/div; if cnt >= 5: rem = np.mod(x,div); break
\* cnt >= 5 is x/div >= 5, that is x >= 5*div for a positive div (the double
\* 1./0.2 is 5.0).  cnt is kept as its integer part, which is what np.linspace
\* makes of num = cnt+1.  When no div is accepted, rem is never bound.
RECURSIVE DivSearch(_, _, _)
DivSearch(x, divs, i) ==
    IF i > Len(divs) THEN [found |-> FALSE, div |-> 0, cnt |-> 0, rem |-> 0]
    ELSE IF x >= 5 * divs[i]
         THEN [found |-> TRUE, div |-> divs[i], cnt |-> x \div divs[i],
               rem |-> np_mod(x, divs[i])]
         ELSE DivSearch(x, divs, i + 1)

TickError(e) == [raised |-> TRUE, err |-> e, div |-> 0, rem |-> 0, ticks |-> << >>]

\* The upper end handed to np.linspace.
TickStopAtRangeEnd(vrange, rem) == vrange[2]
TickStop(vrange, rem) == vrange[2] - rem

\* return np.linspace(vrange[0], vrange[1]-rem, num=cnt+1); cnt is the floor
\* of x/div here, numpy truncates num.
TickResult(vrange, s) ==
    IF ~ s.found THEN TickError("UnboundLocalError")
    ELSE [raised |-> FALSE, err |-> "", div |-> s.div, rem |-> s.rem,
          ticks |-> linspace(vrange[1], TickStop(vrange, s.rem), s.cnt + 1)]

\* The body shared by the module function and the cg_plot method, which differ
\* in the default divisors only.
TickVector(divs, vrange, vres) ==
    LET x == vrange[2] - vrange[1] IN
    IF ArrayTruth(vres) = "ambiguous" THEN TickError("ValueError")
    ELSE IF ArrayTruth(vres) = "false" THEN TickResult(vrange, DivSearch(x, divs, 1))
    ELSE IF Len(vres) > 1 THEN TickResult(vrange, DivSearch(x, vres, 1))
    ELSE TickResult(vrange, [found |-> TRUE, div |-> vres[1],
                             cnt |-> x \div vres[1], rem |-> np_mod(x, vres[1])])

get_tick_vector(vrange, vres) == TickVector(DefaultDivs, vrange, vres)

cg_get_tick_vector(vrange, vres) == TickVector(CgDefaultDivs, vrange, vres)

-----------------------------------------------------------------------------
(* The calls of get_tick_vector *)

\* The lower ends of the value ranges: 0, 1.5 and -5.
RangeStarts == { 0, 150, -500 }

\* Widths in quarters of a unit up to MaxWidth, and some wide ranges.
Widths == { q * (Unit \div 4) : q \in 0..(4 * MaxWidth) }
             \cup { 500 * Unit, 1000 * Unit, 2000 * Unit }

ResWidths == { q * (Unit \div 4) : q \in 0..(4 * MaxResWidth) }

\* Resolutions: none (empty, and the 0. that create_curvilinear_axes passes
\* by default), single values, several values.
Resolutions == { << >>, << 0 >>, << Unit >>, << 250 >>, << 10 * Unit >>,
                 << 5 * Unit, Unit >>, << 10 * Unit, 2 * Unit, 50 >> }

NoResolutions == { << >>, << 0 >> }

TickImpls == { "get_tick_vector", "cg_plot.get_tick_vector" }

\* The calls that are made: the arguments, before the function has run.
TickInputs ==
    { [impl |-> impl, vrange |-> << v0, v0 + w >>, vres |-> vres,
       done |-> FALSE, res |-> TickError("")] :
        impl \in TickImpls, v0 \in RangeStarts, w \in Widths, vres \in NoResolutions }
    \cup
    { [impl |-> impl, vrange |-> << v0, v0 + w >>, vres |-> vres,
       done |-> FALSE, res |-> TickError("")] :
        impl \in TickImpls, v0 \in RangeStarts, w \in ResWidths,
        vres \in Resolutions \ NoResolutions }

NoTick == [impl |-> "none", vrange |-> << 0, 0 >>, vres |-> << >>,
           done |-> FALSE, res |-> TickError("")]

\* The module function runs on its arguments.
GetTickVector ==
    /\ tick.impl = "get_tick_vector" /\ ~ tick.done
    /\ tick' = [tick EXCEPT !.done = TRUE, !.res = get_tick_vector(tick.vrange, tick.vres)]
    /\ UNCHANGED << stack, files, dirs, interactive, call, slice, mesh, kwcall, cart, npt, cg >>

\* The cg_plot method runs on its arguments.
CgGetTickVector ==
    /\ tick.impl = "cg_plot.get_tick_vector" /\ ~ tick.done
    /\ tick' = [tick EXCEPT !.done = TRUE, !.res = cg_get_tick_vector(tick.vrange, tick.vres)]
    /\ UNCHANGED << stack, files, dirs, interactive, call, slice, mesh, kwcall, cart, npt, cg >>

-----------------------------------------------------------------------------
(* The display ranges of rhi_plot and cg_plot.plot *)

\* a[start:stop] on an axis of n entries, as the set of 0-based indices kept.
PySlice(start, stop, n) == { i \in 0..(n - 1) : start <= i /\ i < stop }

\* np.where(v >= lo)[0] and np.where(v <= hi)[0] for a vector of numerators v
\* over den: the 0-based indices where the comparison holds.
WhereGE(v, den, lo) == { i \in 0..(Len(v) - 1) : v[i + 1] >= lo * den }
WhereLE(v, den, hi) == { i \in 0..(Len(v) - 1) : v[i + 1] <= hi * den }

SliceError(e) == [raised |-> TRUE, err |-> e, rows |-> {}, bins |-> {},
                  theta |-> {}, r |-> {}]

\* The upper index of the data slice, from the index of the last sample that
\* is within the range.
DataStop(ind_stop) == ind_stop

\* theta = np.linspace(0, ndeg, n_theta) in degrees, r = np.linspace(0., dmax, n_r);
\* the indices of the first sample >= the lower end and of the last sample <=
\* the upper end of each range; then the slices of theta, r and data.
\* theta_stop_extra is 0 in rhi_plot and 1 in cg_plot.plot ("+1 is to close
\* the gap to 360deg").  The [0][0] and [0][-1] of an empty np.where raise
\* IndexError.
select_range(ndeg, dmax, n_theta, n_r, theta_range, rad_range, theta_stop_extra) ==
    LET theta == linspace_num(0, ndeg, n_theta)
        r     == linspace_num(0, dmax, n_r)
        tS == WhereGE(theta, LinDen(n_theta), theta_range[1])
        tE == WhereLE(theta, LinDen(n_theta), theta_range[2])
        rS == WhereGE(r, LinDen(n_r), rad_range[1])
        rE == WhereLE(r, LinDen(n_r), rad_range[2])
    IN  IF tS = {} \/ tE = {} \/ rS = {} \/ rE = {} THEN SliceError("IndexError")
        ELSE LET ind_start1 == Min(tS)
                 ind_stop1  == Max(tE)
                 ind_start2 == Min(rS)
                 ind_stop2  == Max(rE)
             IN [raised |-> FALSE, err |-> "",
                 theta |-> PySlice(ind_start1, ind_stop1 + theta_stop_extra, n_theta),
                 r     |-> PySlice(ind_start2, ind_stop2, n_r),
                 rows  |-> PySlice(ind_start1, DataStop(ind_stop1), n_theta),
                 bins  |-> PySlice(ind_start2, DataStop(ind_stop2), n_r)]

\* rhi_plot: a quarter circle, no extra theta sample.
rhi_select(dmax, n_theta, n_r, theta_range, rad_range) ==
    select_range(90, dmax, n_theta, n_r, theta_range, rad_range, 0)

\* cg_plot.plot: self.ndeg is 360 for a PPI and 90 for an RHI.
cg_ndeg(ind) == IF ind = "PPI" THEN 360 ELSE 90

cg_select(ind, dmax, n_theta, n_r, theta_range, rad_range) ==
    select_range(cg_ndeg(ind), dmax, n_theta, n_r, theta_range, rad_range, 1)

\* The defaults: theta_range [0,90] ([0,360] for a PPI), and the radial range
\* [0, data max range], the data max range being n_r.
DefaultThetaRange(ind) == << 0, cg_ndeg(ind) >>
DefaultRadRange(dmax) == << 0, dmax >>

\* The pairs (lo, hi) of S with lo <= hi.
RangePairs(S) == { p \in S \X S : p[1] <= p[2] }

SliceFns == { << "rhi_plot", "RHI" >>, << "cg_plot.plot", "RHI" >>,
              << "cg_plot.plot", "PPI" >> }

\* The angles the theta ranges are made of, up to the sweep of the product.
SliceAngles(ind) == { a \in { 0, 30, 45, 90, 360 } : a <= cg_ndeg(ind) }

\* The calls that are made: data of n_theta x n_r cells whose last bin is at
\* n_r (the default) or at 2 n_r, and ranges within the sweep and the data.
SliceInputsOf(fn, nt, nr, dm) ==
    { [fn |-> fn[1], ind |-> fn[2], n_theta |-> nt, n_r |-> nr, dmax |-> dm,
       theta_range |-> t, rad_range |-> r,
       done |-> FALSE, res |-> SliceError("")] :
        t \in RangePairs(SliceAngles(fn[2])), r \in RangePairs(0..dm) }

SliceInputs ==
    UNION { SliceInputsOf(c[1], c[2], c[3], c[3]) \cup SliceInputsOf(c[1], c[2], c[3], 2 * c[3]) :
              c \in SliceFns \X (1..MaxTheta) \X (1..MaxR) }

\* rhi_plot selects the data to display.
RhiPlotSelect ==
    /\ slice.fn = "rhi_plot" /\ ~ slice.done
    /\ slice' = [slice EXCEPT !.done = TRUE,
                   !.res = rhi_select(slice.dmax, slice.n_theta, slice.n_r,
                                      slice.theta_range, slice.rad_range)]
    /\ UNCHANGED << stack, files, dirs, interactive, call, tick, mesh, kwcall, cart, npt, cg >>

\* cg_plot.plot selects the data to display.
CgPlotSelect ==
    /\ slice.fn = "cg_plot.plot" /\ ~ slice.done
    /\ slice' = [slice EXCEPT !.done = TRUE,
                   !.res = cg_select(slice.ind, slice.dmax, slice.n_theta, slice.n_r,
                                     slice.theta_range, slice.rad_range)]
    /\ UNCHANGED << stack, files, dirs, interactive, call, tick, mesh, kwcall, cart, npt, cg >>

-----------------------------------------------------------------------------
(* The mesh of polar_plot and PolarPlot.plot *)

\* The input: cell (i, j) of the n_theta x n_r array holds its own position.
PolarData(n_theta, n_r) ==
    [i \in 1..n_theta |-> [j \in 1..n_r |-> << i - 1, j - 1 >>]]

\* np.transpose of a 2-d array.
transpose(a, n_rows, n_cols) ==
    [j \in 1..n_cols |-> [i \in 1..n_rows |-> a[i][j]]]

\* np.roll: shift %= n; indexes = concatenate((arange(n-shift, n), arange(n-shift)))
\* The 0-based source index of each place of the result.
RollIndexesBackward(n, shift) ==
    LET s == shift % n IN
    [k \in 1..n |-> IF k <= n - s THEN s + (k - 1) ELSE (k - 1) - (n - s)]
RollIndexes(n, shift) ==
    LET s == shift % n IN
    [k \in 1..n |-> IF k <= s THEN (n - s) + (k - 1) ELSE (k - 1) - s]

\* res = a.take(indexes, axis=1)
roll_axis1(a, shift) ==
    [j \in 1..Len(a) |->
        [k \in 1..Len(a[j]) |-> a[j][RollIndexes(Len(a[j]), shift)[k] + 1]]]

\* theta = np.linspace(0, 2*np.pi, n_theta+1), kept in degrees;
\* r = np.linspace(0., R, n_r+1); data = np.roll(np.transpose(data), theta0, axis=1);
\* pcolormesh(theta, r, data)
polar_mesh(n_theta, n_r, R, theta0) ==
    [theta |-> linspace_num(0, 360, n_theta + 1),
     r     |-> linspace_num(0, R, n_r + 1),
     C     |-> roll_axis1(transpose(PolarData(n_theta, n_r), n_theta, n_r), theta0)]

NoMesh == [theta |-> << >>, r |-> << >>, C |-> << >>]

MeshInputs ==
    { [fn |-> fn, n_theta |-> nt, n_r |-> nr, R |-> rr, theta0 |-> t0,
       done |-> FALSE, res |-> NoMesh] :
        fn \in { "polar_plot", "PolarPlot.plot" },
        nt \in 1..MaxTheta, nr \in 1..MaxR, rr \in { 1, 5 },
        t0 \in (-MaxShift)..MaxShift }

\* polar_plot builds its mesh.
PolarPlotMesh ==
    /\ mesh.fn = "polar_plot" /\ ~ mesh.done
    /\ mesh' = [mesh EXCEPT !.done = TRUE,
                  !.res = polar_mesh(mesh.n_theta, mesh.n_r, mesh.R, mesh.theta0)]
    /\ UNCHANGED << stack, files, dirs, interactive, call, tick, slice, kwcall, cart, npt, cg >>

\* PolarPlot.plot builds its mesh, by the same statements.
PolarPlotClassMesh ==
    /\ mesh.fn = "PolarPlot.plot" /\ ~ mesh.done
    /\ mesh' = [mesh EXCEPT !.done = TRUE,
                  !.res = polar_mesh(mesh.n_theta, mesh.n_r, mesh.R, mesh.theta0)]
    /\ UNCHANGED << stack, files, dirs, interactive, call, tick, slice, kwcall, cart, npt, cg >>

-----------------------------------------------------------------------------
(* pylab and os.path, as the plotting functions use them *)

\* A file path is the sequence of its components; '' is the empty sequence.
Paths == { << >>, << "a.png" >>, << "out", "a.png" >>, << "nodir", "a.png" >> }

Range(q) == { q[i] : i \in 1..Len(q) }

\* What a call does to pylab, in order.
Ev(e, f, p) == [ev |-> e, fig |-> f, path |-> p]

\* The figure pylab calls current: the last one made or selected; 0 if none.
Current(w) == IF w.stack = << >> THEN 0 ELSE w.stack[Len(w.stack)]

\* pl.figure(): a new figure, numbered one above the open ones, made current.
NextNum(w) == IF w.stack = << >> THEN 1 ELSE Max(Range(w.stack)) + 1

pl_figure(w) ==
    IF w.raised THEN w
    ELSE [w EXCEPT !.stack = Append(@, NextNum(w)),
                   !.log = Append(@, Ev("figure", NextNum(w), << >>))]

\* A method of a figure or of one of its axes draws on that figure.
figure_draw(w, f, kind) ==
    IF w.raised THEN w
    ELSE [w EXCEPT !.log = Append(@, Ev(kind, f, << >>))]

\* gcf(): the current figure, made if there is none.
gcf(w) == IF w.stack = << >> THEN pl_figure(w) ELSE w

\* pl.grid, pl.colorbar, pl.title, pl.axes, pl.contourf: on gcf() / gca().
pl_draw(w, kind) == figure_draw(gcf(w), Current(gcf(w)), kind)

pl_grid(w) == pl_draw(w, "grid")
pl_colorbar(w) == pl_draw(w, "colorbar")
pl_title(w) == pl_draw(w, "title")

\* pl.show()
pl_show(w) == IF w.raised THEN w ELSE [w EXCEPT !.log = Append(@, Ev("show", 0, << >>))]

pl_isinteractive(w) == w.interactive

\* pl.close(): destroys the current figure, if there is one; the figure that
\* was active before it becomes current.
pl_close(w) ==
    IF w.raised \/ w.stack = << >> THEN w
    ELSE [w EXCEPT !.stack = SubSeq(@, 1, Len(@) - 1),
                   !.log = Append(@, Ev("close", Current(w), << >>))]

\* path.dirname and path.exists; path.exists('') is False.
path_dirname(p) == IF p = << >> THEN << >> ELSE SubSeq(p, 1, Len(p) - 1)
path_exists(w, d) == d \in w.dirs

\* pl.savefig(fname): writes the current figure; raises IOError when the
\* directory of fname does not exist.
pl_savefig(w, fname) ==
    IF w.raised THEN w
    ELSE IF path_dirname(fname) # << >> /\ ~ path_exists(w, path_dirname(fname))
         THEN [w EXCEPT !.raised = TRUE, !.err = "IOError"]
         ELSE [gcf(w) EXCEPT !.files = @ \cup { fname },
                             !.log = Append(@, Ev("savefig", Current(gcf(w)), fname))]

-----------------------------------------------------------------------------
(* The output section the plotting functions end with *)

\* if ( path.exists(path.dirname(saveto)) ) or ( path.dirname(saveto)=='' ):
SaveGuardExistsOnly(w, saveto) == path_exists(w, path_dirname(saveto))
SaveGuard(w, saveto) ==
    path_exists(w, path_dirname(saveto)) \/ path_dirname(saveto) = << >>

\* "save plot to file": pl.savefig(saveto); pl.close() behind the guard.
save_plot(w, saveto) ==
    IF SaveGuard(w, saveto) THEN pl_close(pl_savefig(w, saveto)) ELSE w

\* if not pl.isinteractive(): pl.close()
CloseAfterShowAlways(w) == pl_close(w)
CloseAfterShow(w) == IF ~ pl_isinteractive(w) THEN pl_close(w) ELSE w

\* "show plot": pl.show(), then the close of a non-interactive session.
show_plot(w) == CloseAfterShow(pl_show(w))

\* if saveto=='': show plot;  else: save plot to file
save_or_show(w, saveto) ==
    IF w.raised THEN w
    ELSE IF saveto = << >> THEN show_plot(w) ELSE save_plot(w, saveto)

\* rhi_plot: if saveto!='': save plot to file
save_if_given(w, saveto) ==
    IF w.raised THEN w
    ELSE IF saveto # << >> THEN save_plot(w, saveto) ELSE w

-----------------------------------------------------------------------------
(* The plotting functions *)

\* The figure the function plots on: the one given, else a new one.
FigureFor(w, fig) == IF fig = 0 THEN pl_figure(w) ELSE w
Plotted(w, fig) == IF fig = 0 THEN Current(FigureFor(w, fig)) ELSE fig

Drawn(w, f) == IF w.raised THEN w ELSE [w EXCEPT !.plotfig = f, !.drawn = TRUE]

Raise(w, e) == IF w.raised THEN w ELSE [w EXCEPT !.raised = TRUE, !.err = e]

\* polar_plot: the mesh on an axes of fig; grid, colorbar and title through pylab.
polar_plot(w, fig, saveto) ==
    LET f  == Plotted(w, fig)
        w1 == figure_draw(FigureFor(w, fig), f, "mesh")
        w2 == pl_title(pl_colorbar(pl_grid(w1)))
    IN  save_or_show(Drawn(w2, f), saveto)

\* cartesian_plot: CartesianPlot draws mesh, grid and title on its own axes and
\* the colorbar through pylab.
cartesian_plot(w, fig, saveto) ==
    LET f  == Plotted(w, fig)
        w1 == figure_draw(figure_draw(FigureFor(w, fig), f, "mesh"), f, "grid")
        w2 == figure_draw(pl_colorbar(w1), f, "title")
    IN  save_or_show(Drawn(w2, f), saveto)

\* create_curvilinear_axes: the tick vectors for R[0:2] and H, then grid lines
\* and title on the host axes of fig.
create_curvilinear_axes(w, f, R, H, r_res, h_res) ==
    IF get_tick_vector(R, r_res).raised THEN Raise(w, get_tick_vector(R, r_res).err)
    ELSE IF get_tick_vector(H, h_res).raised THEN Raise(w, get_tick_vector(H, h_res).err)
    ELSE figure_draw(figure_draw(w, f, "grid"), f, "title")

\* rhi_plot with the default R, H and display ranges for data of n_theta x n_r
\* cells: the display ranges are applied, then the axes, the mesh and the
\* colorbar are made on fig.
rhi_plot(w, fig, saveto, n_theta, n_r, r_res) ==
    LET f  == Plotted(w, fig)
        sel == rhi_select(n_r, n_theta, n_r, DefaultThetaRange("RHI"), DefaultRadRange(n_r))
        w0 == IF sel.raised THEN Raise(w, sel.err) ELSE w
        w1 == create_curvilinear_axes(FigureFor(w0, fig), f,
                                      << 0, n_r * Unit >>, << 0, n_r * Unit >>, r_res, << 0 >>)
        w2 == figure_draw(figure_draw(w1, f, "mesh"), f, "colorbar")
    IN  save_if_given(Drawn(w2, f), saveto)

\* plot_plan_and_vert: a new figure; axes, contours, grid, colorbar and the
\* title (if one is given) through pylab.
plot_plan_and_vert(w, has_title, saveto) ==
    LET w1 == pl_colorbar(pl_grid(pl_draw(pl_figure(w), "contour")))
        w2 == IF has_title THEN pl_title(w1) ELSE w1
    IN  save_or_show(Drawn(w2, Current(pl_figure(w))), saveto)

\* plot_tseries: on the axes given (ax is the figure they belong to), else on
\* a new figure; with axes given it returns them before the output section.
plot_tseries(w, ax, saveto) ==
    LET f  == Plotted(w, ax)
        w1 == Drawn(figure_draw(FigureFor(w, ax), f, "lines"), f)
    IN  IF ax # 0 THEN w1 ELSE save_or_show(w1, saveto)

-----------------------------------------------------------------------------
(* The calls of the plotting functions *)

NoCall == [fn |-> "none"]

World ==
    [stack |-> stack, files |-> files, dirs |-> dirs,
     interactive |-> interactive, log |-> << >>, raised |-> FALSE, err |-> "",
     plotfig |-> 0, drawn |-> FALSE]

\* A figure can be made while numbers are left.
CanMake == NextNum(World) <= MaxFigs

\* The caller's figure (or axes): none, or an open figure.
FigArgs == { 0 } \cup Range(stack)

Called(fn, fig, saveto, w) ==
    /\ stack' = w.stack
    /\ files' = w.files
    /\ call' = [fn |-> fn, fig |-> fig, saveto |-> saveto,
                current |-> Current(World), interactive |-> interactive,
                plotfig |-> w.plotfig, drawn |-> w.drawn, log |-> w.log,
                raised |-> w.raised, err |-> w.err]
    /\ UNCHANGED << dirs, interactive, tick, slice, mesh, kwcall, cart, npt, cg >>

PolarPlot ==
    \E fig \in FigArgs : \E saveto \in Paths :
        /\ fig = 0 => CanMake
        /\ Called("polar_plot", fig, saveto, polar_plot(World, fig, saveto))

CartesianPlot ==
    \E fig \in FigArgs : \E saveto \in Paths :
        /\ fig = 0 => CanMake
        /\ Called("cartesian_plot", fig, saveto, cartesian_plot(World, fig, saveto))

RhiPlot ==
    \E fig \in FigArgs : \E saveto \in Paths :
    \E r_res \in { << 0 >>, << 5 * Unit, Unit >> } :
        /\ fig = 0 => CanMake
        /\ Called("rhi_plot", fig, saveto,
                  rhi_plot(World, fig, saveto, MaxTheta, MaxR, r_res))

PlotPlanAndVert ==
    \E has_title \in BOOLEAN : \E saveto \in Paths :
        /\ CanMake
        /\ Called("plot_plan_and_vert", 0, saveto,
                  plot_plan_and_vert(World, has_title, saveto))

\* Without axes (fig is 0 in the record of the call).
PlotTseries ==
    \E saveto \in Paths :
        /\ CanMake
        /\ Called("plot_tseries", 0, saveto, plot_tseries(World, 0, saveto))

\* With the axes of an open figure.
PlotTseriesOnAxes ==
    \E ax \in Range(stack) : \E saveto \in Paths :
        Called("plot_tseries(ax)", ax, saveto, plot_tseries(World, ax, saveto))

\* The caller makes a figure of their own: pl.figure().
NewFigure ==
    /\ CanMake
    /\ stack' = pl_figure(World).stack
    /\ UNCHANGED << files, dirs, interactive, tick, slice, mesh, kwcall, cart, npt, cg >>
    /\ call' = NoCall

\* The caller selects an open figure: pl.figure(num).
SelectFigure ==
    \E f \in Range(stack) :
        /\ f # Current(World)
        /\ stack' = Append(SelectSeq(stack, LAMBDA g : g # f), f)
        /\ UNCHANGED << files, dirs, interactive, tick, slice, mesh, kwcall, cart, npt, cg >>
        /\ call' = NoCall

\* The caller closes the current figure: pl.close().
CloseFigure ==
    /\ stack # << >>
    /\ stack' = pl_close(World).stack
    /\ UNCHANGED << files, dirs, interactive, tick, slice, mesh, kwcall, cart, npt, cg >>
    /\ call' = NoCall

\* pl.ion() / pl.ioff()
SetInteractive ==
    /\ interactive' = ~ interactive
    /\ UNCHANGED << stack, files, dirs, tick, slice, mesh, kwcall, cart, npt, cg >>
    /\ call' = NoCall

-----------------------------------------------------------------------------
(* The keyword arguments of rhi_plot *)

\* A dict of keyword arguments is the set of its keys.  d.pop(k, default)
\* takes k out of d; d[k] = v puts k in.
KwPop(d, k) == d \ { k }
KwSet(d, k) == d \cup { k }

\* The keywords rhi_plot pops from myargs for its own use and does not put
\* back: extend, classes, figsize, fig, dunit, saveto, colormap, theta_range,
\* rad_range.
RhiPopped == { "extend", "classes", "figsize", "fig", "dunit", "saveto",
               "colormap", "theta_range", "rad_range" }

\* myargs, a copy of kwargs: R is popped and put back together with xunit, H
\* is popped and put back together with yunit, axpos is popped and put back,
\* the others are popped.  myargs goes to create_curvilinear_axes.
rhi_myargs(kwargs) ==
    LET a1 == KwSet(KwSet(KwSet(KwPop(kwargs, "R"), "R"), "R"), "xunit")
        a2 == KwSet(KwSet(KwPop(a1, "H"), "H"), "yunit")
        a3 == KwSet(KwPop(a2, "axpos"), "axpos")
    IN  a3 \ RhiPopped

\* "remove existing myargs from kwargs": the keys popped from kwargs.
RhiRemovedKeys ==
    { "R", "H", "r_res", "h_res", "a_res", "xtitle", "ytitle", "atitle", "title",
      "figsize", "theta_range", "rad_range", "fig", "dunit", "saveto", "colormap",
      "axpos", "xunit", "yunit" }

\* for k in key: if k in kwargs: kwargs.pop(k); what is left is given to
\* ax2.pcolormesh(X, Y, data, rasterized=True, cmap=..., **kwargs).
rhi_pcolormesh_kwargs(kwargs) == kwargs \ RhiRemovedKeys

\* The keywords a caller gives: those rhi_plot documents, and two of pcolormesh.
KwUniverse ==
    { "R", "H", "axpos", "extend", "classes", "figsize", "fig", "dunit", "saveto",
      "colormap", "theta_range", "rad_range", "r_res", "title", "vmin", "alpha" }

KwInputs ==
    { [fn |-> "rhi_plot", kwargs |-> k, done |-> FALSE, myargs |-> {}, mesh_kwargs |-> {}] :
        k \in { k \in SUBSET KwUniverse : Cardinality(k) <= MaxKwargs } }

\* rhi_plot processes its keywords.
RhiPlotKwargs ==
    /\ kwcall.fn = "rhi_plot" /\ ~ kwcall.done
    /\ kwcall' = [kwcall EXCEPT !.done = TRUE,
                    !.myargs = rhi_myargs(kwcall.kwargs),
                    !.mesh_kwargs = rhi_pcolormesh_kwargs(kwcall.kwargs)]
    /\ UNCHANGED << stack, files, dirs, interactive, call, tick, slice, mesh, cart, npt, cg >>

-----------------------------------------------------------------------------
(* The coordinate vectors of cartesian_plot *)

\* np.arange(n)
arange(n) == [i \in 1..n |-> i - 1]

\* if (x==None) and (y==None): x = np.arange(data.shape[0]); y = np.arange(data.shape[1])
\* data.shape is (rows, columns).
cartesian_xy(rows, cols) == [x |-> arange(rows), y |-> arange(cols)]

\* The calls without x and y: the shapes of the data.
CartInputs ==
    { [fn |-> "cartesian_plot", rows |-> n, cols |-> m, done |-> FALSE,
       x |-> << >>, y |-> << >>] : n \in 1..MaxRows, m \in 1..MaxCols }

\* cartesian_plot builds x and y and hands them to CartesianPlot.plot.
CartesianPlotVectors ==
    /\ cart.fn = "cartesian_plot" /\ ~ cart.done
    /\ cart' = [cart EXCEPT !.done = TRUE,
                  !.x = cartesian_xy(cart.rows, cart.cols).x,
                  !.y = cartesian_xy(cart.rows, cart.cols).y]
    /\ UNCHANGED << stack, files, dirs, interactive, call, tick, slice, mesh, kwcall, npt, cg >>

-----------------------------------------------------------------------------
(* NorthPolarAxes.NorthPolarTransform *)

\* np.sin and np.cos at k quarter turns (k * 90 degrees).
sin90(k) == CASE k % 4 = 0 -> 0 [] k % 4 = 1 -> 1 [] k % 4 = 2 -> 0 [] k % 4 = 3 -> -1
cos90(k) == CASE k % 4 = 0 -> 1 [] k % 4 = 1 -> 0 [] k % 4 = 2 -> -1 [] k % 4 = 3 -> 0

\* PolarAxes.PolarTransform, which NorthPolarTransform overrides:
\* x = r * cos(t), y = r * sin(t)
polar_transform(t, r) == << r * cos90(t), r * sin90(t) >>

\* x[:] = r * np.sin(t); y[:] = r * np.cos(t) for a row (t, r) of tr; t in
\* quarter turns.
north_polar_transform(t, r) == << r * sin90(t), r * cos90(t) >>

TransformInputs ==
    { [fn |-> "transform", t |-> t, r |-> r, done |-> FALSE, xy |-> << 0, 0 >>] :
        t \in (-MaxQuarter)..MaxQuarter, r \in 0..MaxRadius }

\* NorthPolarTransform.transform maps a point.
NorthPolarTransform ==
    /\ npt.fn = "transform" /\ ~ npt.done
    /\ npt' = [npt EXCEPT !.done = TRUE, !.xy = north_polar_transform(npt.t, npt.r)]
    /\ UNCHANGED << stack, files, dirs, interactive, call, tick, slice, mesh, kwcall, cart, cg >>

-----------------------------------------------------------------------------
(* cg_plot: the constructor, plot and colorbar *)

\* The keyword arguments the constructor documents and keeps as attributes
\* (faxis is kept as self.float_axis).
CgKeywords == { "x_range", "y_range", "theta_range", "radial_range", "data_range",
                "xunit", "yunit", "faxis", "a_res", "x_res", "y_res" }

\* A list of artists kept in an attribute such as self.p_xticks: the attribute
\* is not there ("unset"), is None, or is a list of artists at the places at.
NoArtists(st) == [st |-> st, at |-> {}]
Artists(places) == [st |-> "list", at |-> places]

\* What the last method call was and how it ended.
CgLast(op, kw, s, err, new_cbar) ==
    [op |-> op, kw |-> kw, s |-> s, raised |-> err # "", err |-> err, new_cbar |-> new_cbar]

\* An attribute holds the value the caller gave to the constructor ("ctor"),
\* the value the caller gave to plot ("plot"), a value the code makes up
\* ("default"), or None.  ax and fig are the number of the figure they are (on),
\* 0 for None.
NoCg ==
    [made |-> FALSE, ind |-> "none", ax |-> 0, ax_given |-> FALSE, fig |-> 0,
     ax2 |-> FALSE, ctor |-> {}, attrs |-> [a \in CgKeywords |-> "None"],
     aspect |-> 0, x_range |-> << 0, 0 >>, y_range |-> << 0, 0 >>,
     rad |-> << >>, hgt |-> << >>, plotted |-> FALSE, axes_made |-> 0,
     mesh_on |-> "none", cbar |-> FALSE, ncax |-> 0, frame |-> TRUE,
     p_xticks |-> NoArtists("unset"), p_yticks |-> NoArtists("unset"),
     p_xgrid |-> NoArtists("unset"), p_ygrid |-> NoArtists("unset"),
     last |-> CgLast("none", {}, 0, "", FALSE)]

CgInds == { "PPI", "RHI" }

\* __init__: the keywords are popped into attributes, None when not given
\* (faxis 45); then theta_range is set from ind, whatever was given; aspect is
\* 1. for a PPI and 0. for an RHI.
cg_init(ind, ax, fig, kwargs) ==
    [NoCg EXCEPT
        !.made = TRUE, !.ind = ind, !.ax = ax, !.ax_given = (ax # 0), !.fig = fig,
        !.ctor = kwargs,
        !.attrs = [a \in CgKeywords |->
                     IF a = "theta_range" /\ ind \in CgInds THEN "default"
                     ELSE IF a \in kwargs THEN "ctor"
                     ELSE IF a = "faxis" THEN "default"
                     ELSE "None"],
        !.aspect = IF ind = "PPI" THEN 1 ELSE 0,
        !.last = CgLast("__init__", kwargs, 0, "", FALSE)]

\* plot: self.x_range = kwargs.pop('x_range', [-n_r, n_r]) and so on: the
\* value given to plot or else a default, except for x_res, y_res and
\* theta_range, whose default is the attribute itself.
cg_plot_attrs(o, kwargs) ==
    [a \in CgKeywords |->
        IF a \in kwargs THEN "plot"
        ELSE IF a \in { "x_res", "y_res", "theta_range" } THEN o.attrs[a]
        ELSE IF a \in { "xunit", "yunit" } THEN "None"
        ELSE "default"]

\* The x range plot falls back to, for data of n_r range bins.
CgDefaultXRange(ind, n_r) ==
    IF ind = "PPI" THEN << -(n_r * Unit), n_r * Unit >> ELSE << 0, n_r * Unit >>

\* The array a resolution attribute holds: np.array(None), or the caller's
\* value (1 given to the constructor, 2 given to plot).
CgRes(tag) ==
    IF tag = "ctor" THEN << Unit >> ELSE IF tag = "plot" THEN << 2 * Unit >> ELSE << 0 >>

\* plot(data) for data of n_theta x n_r cells and keywords that leave the
\* ranges alone; newfig is the number pl.figure() would give.  The attributes
\* are set, the display ranges selected and the tick vectors made; axes are
\* made only if self.ax is None; then self.fig.get_dpi(), the axis limits, and
\* self.ax2.pcolormesh.
cg_plot(o, kwargs, n_theta, n_r, newfig) ==
    LET o1  == [o EXCEPT !.attrs = cg_plot_attrs(o, kwargs),
                         !.x_range = CgDefaultXRange(o.ind, n_r),
                         !.y_range = CgDefaultXRange(o.ind, n_r)]
        sel == cg_select(o.ind, n_r, n_theta, n_r, DefaultThetaRange(o.ind),
                         DefaultRadRange(n_r))
        rad == cg_get_tick_vector(o1.x_range, CgRes(o1.attrs["x_res"]))
        hgt == cg_get_tick_vector(o1.y_range, CgRes(o1.attrs["y_res"]))
        o2  == [o1 EXCEPT !.rad = rad.ticks, !.hgt = hgt.ticks]
        o3  == IF o2.ax # 0 THEN o2
               ELSE [o2 EXCEPT !.fig = IF o2.fig = 0 THEN newfig ELSE @,
                               !.ax = IF o2.fig = 0 THEN newfig ELSE o2.fig,
                               !.ax2 = TRUE,
                               !.axes_made = @ + 1]
        fail(oo, e) == [oo EXCEPT !.last = CgLast("plot", kwargs, 0, e, FALSE)]
    IN  IF sel.raised THEN fail(o1, sel.err)
        ELSE IF rad.raised THEN fail(o1, rad.err)
        ELSE IF hgt.raised THEN fail([o1 EXCEPT !.rad = rad.ticks], hgt.err)
        ELSE IF o3.fig = 0 THEN fail(o3, "AttributeError")
        ELSE IF ~ o3.ax2 THEN fail(o3, "AttributeError")
        ELSE [o3 EXCEPT !.plotted = TRUE,
                        !.mesh_on = IF o3.ax_given THEN "given" ELSE "made",
                        !.last = CgLast("plot", kwargs, 0, "", FALSE)]

\* colorbar: the keywords it keeps as attributes.
ColorbarKeys == { "vmin", "vmax", "z_res", "ztitle", "zunit", "cbp", "fsize", "cbw" }

\* colorbar(mappable, **kwargs) after plot(): the keywords of ColorbarKeys
\* are popped; 1/self.aspect; the new axes cax are added to the figure;
\* self.cbar = self.fig.colorbar(...) only if keywords are left; then
\* self.cbar is used and returned.
cg_colorbar(o, kwargs) ==
    LET left == kwargs \ ColorbarKeys
        z    == get_tick_vector(<< 0, 50 * Unit >>,
                                IF "z_res" \in kwargs THEN << 10 * Unit >> ELSE << 0 >>)
        o1   == [o EXCEPT !.ncax = @ + 1]
        o2   == IF left # {} THEN [o1 EXCEPT !.cbar = TRUE] ELSE o1
        fail(oo, e) == [oo EXCEPT !.last = CgLast("colorbar", kwargs, 0, e, FALSE)]
    IN  IF o.aspect = 0 THEN fail(o, "ZeroDivisionError")
        ELSE IF z.raised THEN fail(o1, z.err)
        ELSE IF ~ o2.cbar THEN fail(o2, "AttributeError")
        ELSE [o2 EXCEPT !.last = CgLast("colorbar", kwargs, 0, "", left # {})]

\* The keywords given to the constructor: none, or one of those it documents.
CgCtorKwargs == { {} } \cup { { k } : k \in CgKeywords }

\* The keywords given to plot: none, a resolution, one for pcolormesh.
CgPlotKwargs == { {}, { "x_res" }, { "vmin" } }

\* The keywords given to colorbar.
CgColorbarKwargs ==
    { {}, { "vmin", "vmax" }, { "z_res" }, { "ztitle", "zunit" },
      { "cbp", "fsize", "cbw" }, { "extend" }, { "ticks" }, { "vmin", "extend" } }

\* cg_plot(ind, ax, fig, **kwargs): ax and fig are None or (on) an open figure.
CgConstruct ==
    \E ind \in CgInds : \E ax \in FigArgs : \E fig \in FigArgs : \E kwargs \in CgCtorKwargs :
        /\ ~ cg.made
        /\ cg' = cg_init(ind, ax, fig, kwargs)
        /\ UNCHANGED << stack, files, dirs, interactive, call, tick, slice, mesh, kwcall, cart, npt >>

\* plot(data, **kwargs); pl.figure() is called when neither ax nor fig is there.
CgPlot ==
    \E kwargs \in CgPlotKwargs :
        /\ cg.made
        /\ (cg.ax = 0 /\ cg.fig = 0) => CanMake
        /\ cg' = cg_plot(cg, kwargs, MaxTheta, MaxR, NextNum(World))
        /\ stack' = IF cg.ax = 0 /\ cg.fig = 0 /\ cg'.fig # 0
                    THEN pl_figure(World).stack ELSE stack
        /\ call' = NoCall
        /\ UNCHANGED << files, dirs, interactive, tick, slice, mesh, kwcall, cart, npt >>

\* colorbar(circle, **kwargs), after plot().
CgColorbar ==
    \E kwargs \in CgColorbarKwargs :
        /\ cg.plotted
        /\ cg.ncax < MaxCax
        /\ cg' = cg_colorbar(cg, kwargs)
        /\ UNCHANGED << stack, files, dirs, interactive, call, tick, slice, mesh, kwcall, cart, npt >>

-----------------------------------------------------------------------------
(* cg_plot: the tick and grid methods *)

\* xgrid('on'): the old lines are removed and a line is drawn at each of self.rad.
xgrid_on(o) == [o EXCEPT !.p_xgrid = Artists(Range(o.rad))]

\* xgrid('off'): the lines are removed, if there is the attribute.
xgrid_off(o) ==
    IF o.p_xgrid.st = "unset" THEN o ELSE [o EXCEPT !.p_xgrid = NoArtists("None")]

\* xgrid(s): 'on' or True, 'off' or False, 'update' (which is xgrid('on')),
\* anything else (on, then off).
xgrid(o, s) ==
    CASE s = "on" -> xgrid_on(o)
      [] s = "off" -> xgrid_off(o)
      [] s = "update" -> xgrid_on(o)
      [] OTHER -> xgrid_off(xgrid_on(o))

ygrid_on(o) == [o EXCEPT !.p_ygrid = Artists(Range(o.hgt))]

ygrid_off(o) ==
    IF o.p_ygrid.st = "unset" THEN o ELSE [o EXCEPT !.p_ygrid = NoArtists("None")]

ygrid(o, s) ==
    CASE s = "on" -> ygrid_on(o)
      [] s = "off" -> ygrid_off(o)
      [] s = "update" -> ygrid_on(o)
      [] OTHER -> ygrid_off(ygrid_on(o))

\* xticks(s): s == False (which 0 is, too) removes the labels and marks; any
\* other s is a resolution: the old ones are removed, self.rad is made anew,
\* a label and a mark are drawn at each of self.rad, and self.xgrid('update').
xticks(o, s) ==
    LET tv == cg_get_tick_vector(o.x_range, << s >>) IN
    IF s = 0
    THEN IF o.p_xticks.st = "unset" THEN o ELSE [o EXCEPT !.p_xticks = NoArtists("None")]
    ELSE IF tv.raised THEN [o EXCEPT !.p_xticks = Artists({})]
    ELSE xgrid([o EXCEPT !.p_xticks = Artists(Range(tv.ticks)), !.rad = tv.ticks], "update")

yticks(o, s) ==
    LET tv == cg_get_tick_vector(o.y_range, << s >>) IN
    IF s = 0
    THEN IF o.p_yticks.st = "unset" THEN o ELSE [o EXCEPT !.p_yticks = NoArtists("None")]
    ELSE IF tv.raised THEN [o EXCEPT !.p_yticks = Artists({})]
    ELSE ygrid([o EXCEPT !.p_yticks = Artists(Range(tv.ticks)), !.hgt = tv.ticks], "update")

\* cartgrid(s): the four axis lines are shown or hidden, then xgrid(s), ygrid(s).
cartgrid(o, s) ==
    ygrid(xgrid([o EXCEPT !.frame = s], IF s THEN "on" ELSE "off"),
          IF s THEN "on" ELSE "off")

\* The arguments given to xticks and yticks: False, or a resolution.
TickArgs == { 0, Unit }

\* The arguments given to xgrid and ygrid.
GridArgs == { "on", "off", "update", "other" }

CgTicksDone(o, op, s) == [o EXCEPT !.last = CgLast(op, {}, s, "", FALSE)]

CgXticks ==
    \E s \in TickArgs :
        /\ cg.plotted
        /\ cg' = CgTicksDone(xticks(cg, s), "xticks", s)
        /\ UNCHANGED << stack, files, dirs, interactive, call, tick, slice, mesh, kwcall, cart, npt >>

CgYticks ==
    \E s \in TickArgs :
        /\ cg.plotted
        /\ cg' = CgTicksDone(yticks(cg, s), "yticks", s)
        /\ UNCHANGED << stack, files, dirs, interactive, call, tick, slice, mesh, kwcall, cart, npt >>

CgXgrid ==
    \E s \in GridArgs :
        /\ cg.plotted
        /\ cg' = CgTicksDone(xgrid(cg, s), "xgrid", 0)
        /\ UNCHANGED << stack, files, dirs, interactive, call, tick, slice, mesh, kwcall, cart, npt >>

CgYgrid ==
    \E s \in GridArgs :
        /\ cg.plotted
        /\ cg' = CgTicksDone(ygrid(cg, s), "ygrid", 0)
        /\ UNCHANGED << stack, files, dirs, interactive, call, tick, slice, mesh, kwcall, cart, npt >>

CgCartgrid ==
    \E s \in BOOLEAN :
        /\ cg.plotted
        /\ cg' = CgTicksDone(cartgrid(cg, s), "cartgrid", 0)
        /\ UNCHANGED << stack, files, dirs, interactive, call, tick, slice, mesh, kwcall, cart, npt >>

\* The objects the tick and grid methods are called on: cg_plot(ind).plot(data).
CgPlotted ==
    { cg_plot(cg_init(ind, 0, 0, {}), {}, MaxTheta, MaxR, 1) : ind \in CgInds }

-----------------------------------------------------------------------------
(* Specifications *)

InitWorld ==
    /\ stack = << >>
    /\ files = {}
    /\ dirs = { << "out" >> }
    /\ interactive = FALSE
    /\ call = NoCall

Init ==
    /\ InitWorld
    /\ tick = NoTick
    /\ slice = [fn |-> "none"]
    /\ mesh = [fn |-> "none"]
    /\ kwcall = [fn |-> "none"]
    /\ cart = [fn |-> "none"]
    /\ npt = [fn |-> "none"]
    /\ cg = NoCg

Next ==
    \/ PolarPlot
    \/ CartesianPlot
    \/ RhiPlot
    \/ PlotPlanAndVert
    \/ PlotTseries
    \/ PlotTseriesOnAxes
    \/ NewFigure
    \/ SelectFigure
    \/ CloseFigure
    \/ SetInteractive

Spec == Init /\ [][Next]_vars

InitTicks ==
    /\ InitWorld
    /\ tick \in TickInputs
    /\ slice = [fn |-> "none"]
    /\ mesh = [fn |-> "none"]
    /\ kwcall = [fn |-> "none"]
    /\ cart = [fn |-> "none"]
    /\ npt = [fn |-> "none"]
    /\ cg = NoCg

NextTicks == GetTickVector \/ CgGetTickVector

SpecTicks == InitTicks /\ [][NextTicks]_vars

InitSlice ==
    /\ InitWorld
    /\ tick = NoTick
    /\ slice \in SliceInputs
    /\ mesh = [fn |-> "none"]
    /\ kwcall = [fn |-> "none"]
    /\ cart = [fn |-> "none"]
    /\ npt = [fn |-> "none"]
    /\ cg = NoCg

NextSlice == RhiPlotSelect \/ CgPlotSelect

SpecSlice == InitSlice /\ [][NextSlice]_vars

InitMesh ==
    /\ InitWorld
    /\ tick = NoTick
    /\ slice = [fn |-> "none"]
    /\ mesh \in MeshInputs
    /\ kwcall = [fn |-> "none"]
    /\ cart = [fn |-> "none"]
    /\ npt = [fn |-> "none"]
    /\ cg = NoCg

NextMesh == PolarPlotMesh \/ PolarPlotClassMesh

SpecMesh == InitMesh /\ [][NextMesh]_vars

InitKw ==
    /\ InitWorld
    /\ tick = NoTick
    /\ slice = [fn |-> "none"]
    /\ mesh = [fn |-> "none"]
    /\ kwcall \in KwInputs
    /\ cart = [fn |-> "none"]
    /\ npt = [fn |-> "none"]
    /\ cg = NoCg

NextKw == RhiPlotKwargs

SpecKw == InitKw /\ [][NextKw]_vars

InitCart ==
    /\ InitWorld
    /\ tick = NoTick
    /\ slice = [fn |-> "none"]
    /\ mesh = [fn |-> "none"]
    /\ kwcall = [fn |-> "none"]
    /\ cart \in CartInputs
    /\ npt = [fn |-> "none"]
    /\ cg = NoCg

NextCart == CartesianPlotVectors

SpecCart == InitCart /\ [][NextCart]_vars

InitTransform ==
    /\ InitWorld
    /\ tick = NoTick
    /\ slice = [fn |-> "none"]
    /\ mesh = [fn |-> "none"]
    /\ kwcall = [fn |-> "none"]
    /\ cart = [fn |-> "none"]
    /\ npt \in TransformInputs
    /\ cg = NoCg

NextTransform == NorthPolarTransform

SpecTransform == InitTransform /\ [][NextTransform]_vars

InitCg == Init

NextCg == NewFigure \/ CgConstruct \/ CgPlot \/ CgColorbar

SpecCg == InitCg /\ [][NextCg]_vars

\* After cg_plot(ind).plot(data): the figure plot made is open and current.
InitCgTicks ==
    /\ stack = << 1 >>
    /\ files = {}
    /\ dirs = { << "out" >> }
    /\ interactive = FALSE
    /\ call = NoCall
    /\ tick = NoTick
    /\ slice = [fn |-> "none"]
    /\ mesh = [fn |-> "none"]
    /\ kwcall = [fn |-> "none"]
    /\ cart = [fn |-> "none"]
    /\ npt = [fn |-> "none"]
    /\ cg \in CgPlotted

NextCgTicks == CgXticks \/ CgYticks \/ CgXgrid \/ CgYgrid \/ CgCartgrid

SpecCgTicks == InitCgTicks /\ [][NextCgTicks]_vars

-----------------------------------------------------------------------------
(* Properties of the output of the plotting functions, checked under Spec *)

\* The events of the last call that are of the kinds in evs.
Events(evs) == { i \in 1..Len(call.log) : call.log[i].ev \in evs }

\* The last n events of the last call.
LastEvents(n) == SubSeq(call.log, Len(call.log) - n + 1, Len(call.log))

\* The figure pylab held current in the output section of the last call: the
\* figure the function made, or else the one that was current on entry.
PylabFigure == IF call.fig = 0 THEN call.plotfig ELSE call.current

SaveDirOk ==
    path_dirname(call.saveto) = << >> \/ path_dirname(call.saveto) \in dirs

\* The last call is one of the five functions (plot_tseries without axes), was
\* given a file to save to, and drew its plot.
SavingCall ==
    /\ call.fn \in { "polar_plot", "cartesian_plot", "rhi_plot",
                     "plot_plan_and_vert", "plot_tseries" }
    /\ call.saveto # << >>
    /\ call.drawn

ShowingCall ==
    /\ call.fn \in { "polar_plot", "cartesian_plot", "plot_plan_and_vert" }
    /\ call.saveto = << >>
    /\ call.drawn

C3_RhiPlotShowsWithoutSaveto ==
    (call.fn = "rhi_plot" /\ call.saveto = << >> /\ call.drawn)
        => /\ Events({ "savefig" }) = {}
           /\ Events({ "show" }) # {}

\* C4: when polar_plot is given a figure, the mesh, the grid, the colorbar,
\* the title and the save and close all are on that figure.
C4_EverythingOnTheGivenFigure ==
    (call.fn = "polar_plot" /\ call.fig # 0 /\ call.drawn)
        => \A i \in Events({ "mesh", "grid", "colorbar", "title", "savefig", "close" }) :
              call.log[i].fig = call.fig

-----------------------------------------------------------------------------
(* Properties of get_tick_vector, checked under SpecTicks *)

TickWidth == tick.vrange[2] - tick.vrange[1]

TickReturned == tick.done /\ ~ tick.res.raised

LastTick == tick.res.ticks[Len(tick.res.ticks)]

\* The standard values the docstrings of both implementations give, in model
\* units: [100., 50., 25., 20., 10., 5., 2.5, 2., 1., 0.5, 0.25, 0.2]
DocDivs == << 10000, 5000, 2500, 2000, 1000, 500, 250, 200, 100, 50, 25, 20 >>

\* The first value of divs, in order, that gives at least 5 intervals over x.
FirstFit(divs, x) ==
    LET fits == { i \in 1..Len(divs) : x >= 5 * divs[i] } IN
    IF fits = {} THEN 0 ELSE divs[CHOOSE i \in fits : \A j \in fits : i <= j]

\* C5: a call without a resolution that returns, returns between 5 and 10
\* tick marks.
C5_BetweenFiveAndTenTicks ==
    (TickReturned /\ tick.vres \in NoResolutions)
        => (Len(tick.res.ticks) >= 5 /\ Len(tick.res.ticks) <= 10)

\* C6: a call without a resolution takes its spacing from the documented
\* standard values, the first in their order that gives at least 5 intervals.
C6_SpacingFromDocumentedValues ==
    (TickReturned /\ tick.vres \in NoResolutions)
        => tick.res.div = FirstFit(DocDivs, TickWidth)

C8_ResolutionIsUsed ==
    tick.done =>
        /\ (Len(tick.vres) > 1 /\ FirstFit(tick.vres, TickWidth) # 0)
              => (~ tick.res.raised /\ tick.res.div = FirstFit(tick.vres, TickWidth))
        /\ (Len(tick.vres) = 1 /\ tick.vres[1] # 0)
              => (~ tick.res.raised /\ tick.res.div = tick.vres[1])
        /\ (tick.vres \in NoResolutions /\ ~ tick.res.raised)
              => \E i \in 1..Len(CgDefaultDivs) : tick.res.div = CgDefaultDivs[i]

\* C17: for a range of positive width and the positive spacing div chosen,
\* the ticks returned are floor(width/div)+1, start at vrange[0], are exactly
\* div apart and do not exceed vrange[1].
C17_TicksAreDivApart ==
    (TickReturned /\ TickWidth > 0 /\ tick.res.div > 0)
        => /\ Len(tick.res.ticks) = (TickWidth \div tick.res.div) + 1
           /\ tick.res.ticks[1] = tick.vrange[1]
           /\ \A i \in 1..(Len(tick.res.ticks) - 1) :
                 tick.res.ticks[i + 1] - tick.res.ticks[i] = tick.res.div
           /\ LastTick <= tick.vrange[2]

-----------------------------------------------------------------------------
(* Properties of the display ranges, checked under SpecSlice *)

SliceNdeg == cg_ndeg(slice.ind)

\* The rows whose angle and the bins whose distance lie within the ranges,
\* both ends included.
RowsInRange ==
    { i \in 0..(slice.n_theta - 1) :
        LET th == linspace_num(0, SliceNdeg, slice.n_theta)[i + 1] IN
        /\ th >= slice.theta_range[1] * LinDen(slice.n_theta)
        /\ th <= slice.theta_range[2] * LinDen(slice.n_theta) }

BinsInRange ==
    { j \in 0..(slice.n_r - 1) :
        LET d == linspace_num(0, slice.dmax, slice.n_r)[j + 1] IN
        /\ d >= slice.rad_range[1] * LinDen(slice.n_r)
        /\ d <= slice.rad_range[2] * LinDen(slice.n_r) }

SliceDefaults ==
    /\ slice.theta_range = DefaultThetaRange(slice.ind)
    /\ slice.rad_range = DefaultRadRange(slice.dmax)

\* C9: the data handed to pcolormesh are exactly the rows and bins within the
\* ranges, both ends included; with the default ranges that is every cell.
C9_DataWithinRangesInclusive ==
    (slice.done /\ ~ slice.res.raised)
        => /\ slice.res.rows = RowsInRange
           /\ slice.res.bins = BinsInRange
           /\ SliceDefaults => /\ slice.res.rows = 0..(slice.n_theta - 1)
                               /\ slice.res.bins = 0..(slice.n_r - 1)

-----------------------------------------------------------------------------
(* Properties of the polar mesh, checked under SpecMesh *)

\* C10: slice i of the input is drawn in azimuth bin (i + theta0) mod n_theta
\* of a mesh with n_theta+1 evenly spaced azimuth edges over the full circle
\* and n_r+1 evenly spaced range edges over [0, R]; the mesh has as many cells
\* as the input, so none is dropped.
C10_SliceDrawnInShiftedBin ==
    mesh.done =>
        LET nt == mesh.n_theta
            nr == mesh.n_r
            m  == mesh.res
        IN  /\ Len(m.theta) = nt + 1
            /\ \A k \in 1..(nt + 1) : m.theta[k] = (k - 1) * 360
            /\ LinDen(nt + 1) = nt
            /\ Len(m.r) = nr + 1
            /\ \A k \in 1..(nr + 1) : m.r[k] = (k - 1) * mesh.R
            /\ LinDen(nr + 1) = nr
            /\ Len(m.C) = nr
            /\ \A j \in 0..(nr - 1) :
                  /\ Len(m.C[j + 1]) = nt
                  /\ \A i \in 0..(nt - 1) :
                        m.C[j + 1][((i + mesh.theta0) % nt) + 1] = << i, j >>

\* A mesh rolled by a negative theta0 that moved the data.
C10_Witness ==
    /\ mesh.done
    /\ mesh.theta0 = -1
    /\ mesh.n_theta = 3
    /\ mesh.res.C[1] = << << 1, 0 >>, << 2, 0 >>, << 0, 0 >> >>

-----------------------------------------------------------------------------
(* Properties of the keywords of rhi_plot, checked under SpecKw *)

\* The keywords rhi_plot pops and uses itself.
RhiConsumed == { "R", "H", "axpos", "extend", "classes", "figsize", "fig", "dunit",
                 "saveto", "colormap", "theta_range", "rad_range" }

\* The keywords create_curvilinear_axes reads from myargs.
CurvilinearKeys == { "R", "H", "axpos", "r_res", "h_res", "a_res", "xunit", "yunit",
                     "xtitle", "ytitle", "atitle", "title" }

\* C11: the keywords forwarded to pcolormesh are the caller's keywords that
\* rhi_plot does not consume: none of the keywords rhi_plot pops and uses is
\* forwarded, and every other keyword of the caller that is not one of
\* create_curvilinear_axes is.
C11_ConsumedKeywordsNotForwarded ==
    kwcall.done =>
        /\ kwcall.mesh_kwargs \cap RhiConsumed = {}
        /\ kwcall.mesh_kwargs \subseteq kwcall.kwargs
        /\ (kwcall.kwargs \ (RhiConsumed \cup CurvilinearKeys)) \subseteq kwcall.mesh_kwargs

-----------------------------------------------------------------------------
(* Properties of the coordinate vectors of cartesian_plot, checked under SpecCart *)

\* C15: without x and y, the x vector has one entry per column of the data
\* and the y vector one entry per row, for data of any shape.
C15_VectorsConformToData ==
    cart.done => (Len(cart.x) = cart.cols /\ Len(cart.y) = cart.rows)

-----------------------------------------------------------------------------
(* Properties of NorthPolarTransform, checked under SpecTransform *)

\* C16: theta = 0 points north and theta increases clockwise: at 0, 90, 180
\* and 270 degrees (and the angles a whole number of turns from them) a point
\* at radius r is mapped to (0, r), (r, 0), (0, -r), (-r, 0).
C16_NorthUpClockwise ==
    npt.done =>
        /\ npt.t % 4 = 0 => npt.xy = << 0, npt.r >>
        /\ npt.t % 4 = 1 => npt.xy = << npt.r, 0 >>
        /\ npt.t % 4 = 2 => npt.xy = << 0, -npt.r >>
        /\ npt.t % 4 = 3 => npt.xy = << -npt.r, 0 >>

\* A point 270 degrees round was mapped to the west.
C16_Witness ==
    /\ npt.done
    /\ npt.t = 3
    /\ npt.r = 2
    /\ npt.xy = << -2, 0 >>

-----------------------------------------------------------------------------
(* Properties of cg_plot, checked under SpecCg *)

\* C12: a documented keyword given to the constructor is still in effect after
\* a plot(data) that was not given that keyword: the attribute holds the
\* constructor's value.
C12_ConstructorKeywordsStayInEffect ==
    (cg.last.op = "plot" /\ ~ cg.last.raised)
        => \A k \in cg.ctor \cap CgKeywords :
              k \notin cg.last.kw => cg.attrs[k] = "ctor"

\* C13: plot(data) on an object constructed with axes draws the data on those
\* axes and makes no new axes.
C13_PlotsOnTheGivenAxes ==
    (cg.last.op = "plot" /\ cg.ax_given)
        => /\ ~ cg.last.raised
           /\ cg.plotted
           /\ cg.mesh_on = "given"
           /\ cg.axes_made = 0

\* C14: colorbar after plot() makes a colorbar on new axes and returns it,
\* whatever the keywords: none, only keywords colorbar keeps itself, or others.
C14_ColorbarIsMadeAndReturned ==
    cg.last.op = "colorbar"
        => /\ ~ cg.last.raised
           /\ cg.last.new_cbar
           /\ cg.cbar

-----------------------------------------------------------------------------
(* Properties of the tick and grid methods of cg_plot, checked under SpecCgTicks *)

XGridShown == cg.p_xgrid.st = "list" /\ cg.p_xgrid.at # {}

YGridShown == cg.p_ygrid.st = "list" /\ cg.p_ygrid.at # {}

\* C18: xticks(False) removes the x tick labels and marks, xticks(res) replaces
\* them by those of res, and neither changes anything else: the x grid lines
\* stay shown or hidden as they were, and so do the y ticks, the y grid and
\* the axis lines; the same for yticks.
C18_TicksLeaveTheGridAlone ==
    [][ /\ CgXticks =>
              /\ XGridShown' = XGridShown
              /\ YGridShown' = YGridShown
              /\ cg'.p_yticks = cg.p_yticks
              /\ cg'.frame = cg.frame
              /\ cg'.last.s = 0 => cg'.p_xticks.at = {}
              /\ cg'.last.s # 0 =>
                    cg'.p_xticks.at = Range(cg_get_tick_vector(cg.x_range, << cg'.last.s >>).ticks)
        /\ CgYticks =>
              /\ YGridShown' = YGridShown
              /\ XGridShown' = XGridShown
              /\ cg'.p_xticks = cg.p_xticks
              /\ cg'.frame = cg.frame
              /\ cg'.last.s = 0 => cg'.p_yticks.at = {}
              /\ cg'.last.s # 0 =>
                    cg'.p_yticks.at = Range(cg_get_tick_vector(cg.y_range, << cg'.last.s >>).ticks)
      ]_vars

====
